---- MODULE Spec2Model ----
(***************************************************************************)
(* Model of reminder_bot.py: the two process-wide mappings                 *)
(* (active_reminders, user_states), the job queue of the application, and  *)
(* one action per handler / job callback.                                  *)
(*                                                                         *)
(* Every handler mutates the mappings between two awaits, so each handler  *)
(* is one atomic step.  A raise inside `await query.answer()` (line 100)   *)
(* happens before any mutation and is the same as the update not arriving. *)
(* The replies of the handlers that write the dicts are recorded in `last`;*)
(* /start, /help and /status write nothing, and what /status answers is    *)
(* StatusReport.                                                           *)
(*                                                                         *)
(* Spec lets the job queue run a scheduled job at any time (the clock      *)
(* stands); SpecTimed gives the job queue its clock and runs a job when it *)
(* is due.                                                                 *)
(***************************************************************************)
EXTENDS Integers, Sequences, FiniteSets, TLC

VARIABLES
    active_reminders,  \* line 47: user_id -> Job
    user_states,       \* line 48: user_id -> [time_frame, step]
    job_queue,         \* application.job_queue: the jobs still scheduled
    in_flight,         \* job callbacks suspended in `await send_message`
    last,              \* per observed user: the last run of a handler that writes the
                       \* dicts (cancel, a button, a text) for them, and its reply
    fired,             \* per observed user: how the last run of a job of theirs ended
    now,               \* the clock of the job queue, in seconds
    last_run           \* job -> the time the job queue last ran it

vars == <<active_reminders, user_states, job_queue, in_flight, last, fired, now, last_run>>

----------------------------------------------------------------------------
(* Bounds of the model, and the inputs drawn *)

\* number of whitespace characters around the core of a text message
MaxPad == 1

Users == {"u1", "u2"}

\* every user talks to the bot in a private chat of their own
ChatOf == ("u1" :> "c1") @@ ("u2" :> "c2")

TextIds == {"a"}

\* The users whose replies and job runs are recorded in `last` and `fired`.
\* The code uses a user_id only as a key of its two dicts, so what holds of
\* one user next to an arbitrary other user holds of every user.
Observed == {"u1"}

\* the interval buttons pressed in the model (two of the four of TIME_FRAMES)
PressedCodes == {"5m", "1h"}

----------------------------------------------------------------------------
(* The inputs of the timed specification: one user, the one-minute custom *)
(* and the five-minute random reminder, one text (TimedTexts, below)      *)

\* minutes the clock runs
MaxMinutes == 11

TimedUsers == {"u1"}

TimedData == {<<"reminder", "1m">>, <<"random", "5m">>, <<"cancel", "reminder">>}

----------------------------------------------------------------------------
(* Program constants *)

\* lines 39-44
TIME_FRAMES == ("1m" :> 1) @@ ("5m" :> 5) @@ ("30m" :> 30) @@ ("1h" :> 60)

\* lines 26-36: the pool has five messages
NumDefaultMessages == 5
DEFAULT_REMINDER_MESSAGES == 1..NumDefaultMessages

\* line 228: len(user_message) > 200
MaxMessageLen == 200

----------------------------------------------------------------------------
(* dict helpers *)

EmptyDict == [k \in {} |-> k]

\* `d = {k: v}` in place of `d[k] = v`
DictSet_fresh(d, k, v) == [x \in {k} |-> v]

DictSet(d, k, v) == [x \in (DOMAIN d) \cup {k} |-> IF x = k THEN v ELSE d[x]]

\* dict.clear() in place of `del d[k]`
DictDel_clear(d, k) == [x \in {} |-> d[x]]

\* `del d[k]` left out
DictDel_forgotten(d, k) == d

DictDel(d, k) == [x \in (DOMAIN d) \ {k} |-> d[x]]

----------------------------------------------------------------------------
(* Text messages.  A text is its content (id), the length of its core (the *)
(* part from the first to the last non-whitespace character) and the       *)
(* number of whitespace characters around the core (before or after it).   *)

CoreLens == {MaxMessageLen - 1, MaxMessageLen, MaxMessageLen + 1}

Texts == [id : TextIds, core : CoreLens, pad : 0..MaxPad]

TimedTexts == {t \in Texts : t.core = MaxMessageLen /\ t.pad = 0}

\* len(s)
StrLen(s) == s.core + s.pad

\* the text taken as it came, without str.strip()
Strip_forgotten(s) == s

\* str.strip(), line 225
Strip(s) == [s EXCEPT !.pad = 0]

\* the limit taken one too high
TooLong_late(user_message) == StrLen(user_message) > MaxMessageLen + 1

\* the limit taken one too low (">=" for ">")
TooLong_early(user_message) == StrLen(user_message) >= MaxMessageLen

\* line 228
TooLong(user_message) == StrLen(user_message) > MaxMessageLen

----------------------------------------------------------------------------
(* Callback data.  A callback string is the sequence of its tokens, the    *)
(* tokens being joined by "_": "reminder_5m" is <<"reminder", "5m">>.      *)

TimeCodes == DOMAIN TIME_FRAMES

\* the data of the buttons the bot renders (lines 54-63, 71, 131-138)
ButtonData ==
    {<<"reminder", t>> : t \in PressedCodes} \cup {<<"random", t>> : t \in PressedCodes}
        \cup {<<"random", "reminders">>, <<"cancel", "reminder">>, <<"cancel", "setup">>}

\* data no button carries
ForeignData ==
    {<<"reminder", "x">>, <<"random", "x">>, <<"cancel", "x">>,
     <<"reminder", "reminder", "5m">>}

CallbackData == ButtonData \cup ForeignData

\* line 407: pattern "^reminder_|^cancel_|^random_"
MatchesPattern(data) ==
    Len(data) >= 2 /\ data[1] \in {"reminder", "cancel", "random"}

\* str.startswith(prefix + "_"), line 149
StartsWith(data, prefix) == Len(data) >= 2 /\ data[1] = prefix

\* str.replace(prefix + "_", ""), lines 150 and 155: every occurrence of the
\* token followed by "_" is dropped, i.e. every one but a final token
RECURSIVE Replace(_, _)
Replace(data, prefix) ==
    IF Len(data) <= 1 THEN data
    ELSE IF Head(data) = prefix THEN Replace(Tail(data), prefix)
    ELSE <<Head(data)>> \o Replace(Tail(data), prefix)

\* `time_frame in TIME_FRAMES`, line 157 (and the lookup of lines 183, 240)
InTimeFrames(time_frame) == Len(time_frame) = 1 /\ time_frame[1] \in TimeCodes

----------------------------------------------------------------------------
(* The job queue *)

\* The identity of a new Job object: one that no Job still referenced (by
\* the queue, by a suspended callback or by active_reminders) has.  A Job
\* carries its user_id, so the identity need only differ from those of the
\* jobs of the same user; it is the least such number.
FreshId(user_id) ==
    LET used == {j.id : j \in {k \in job_queue \cup in_flight : k.user_id = user_id}}
                    \cup (IF user_id \in DOMAIN active_reminders
                          THEN {active_reminders[user_id].id} ELSE {})
    IN  CHOOSE i \in 1..(Cardinality(used) + 1) :
            i \notin used /\ \A k \in 1..(i - 1) : k \in used

\* run_repeating with first=0: the first run is due at once
NewJob_first_now(callback, minutes, chat_id, user_id, data) ==
    [id |-> FreshId(user_id), callback |-> callback, interval |-> minutes * 60,
     first |-> 0, chat_id |-> chat_id, user_id |-> user_id, data |-> data,
     created |-> now]

\* run_repeating, lines 184-191 and 241-252: a new Job, made at the time
\* `now`, with interval=minutes * 60 and first=minutes * 60 (seconds)
NewJob(callback, minutes, chat_id, user_id, data) ==
    [id |-> FreshId(user_id), callback |-> callback, interval |-> minutes * 60,
     first |-> minutes * 60, chat_id |-> chat_id, user_id |-> user_id, data |-> data,
     created |-> now]

\* schedule_removal left out: the job stays in the queue
schedule_removal_forgotten(queue, job) == queue

\* Job.schedule_removal: the job leaves the queue; removing a job that has
\* already left is no error
schedule_removal(queue, job) == queue \ {job}

\* the time_frame of the SetupState ("random") stored in place of the code
RandomData_of_state(time_frame) == [time_frame |-> "random", type |-> "random"]

\* the dict of line 190
RandomData(time_frame) == [time_frame |-> time_frame, type |-> "random"]

\* the dict of lines 247-251
CustomData(time_frame, user_message) ==
    [time_frame |-> time_frame, message |-> user_message, type |-> "custom"]

----------------------------------------------------------------------------
Init ==
    /\ active_reminders = EmptyDict
    /\ user_states = EmptyDict
    /\ job_queue = {}
    /\ in_flight = {}
    /\ last = [u \in Observed |-> [op |-> "none", reply |-> "none"]]
    /\ fired = [u \in Observed |-> [outcome |-> "none", chat_id |-> "none", body |-> "none"]]
    /\ now = 0
    /\ last_run = EmptyDict

\* the handler `op` answered `reply` to the user (an exception is the reply
\* "KeyError": it goes to error_handler, lines 393-395)
Said(user_id, op, reply) ==
    last' = IF user_id \in Observed
            THEN [last EXCEPT ![user_id] = [op |-> op, reply |-> reply]]
            ELSE last

\* a run of a callback of one of the user's jobs ended (or suspended) so
Ran(user_id, outcome, chat_id, body) ==
    fired' = IF user_id \in Observed
             THEN [fired EXCEPT ![user_id] =
                      [outcome |-> outcome, chat_id |-> chat_id, body |-> body]]
             ELSE fired

----------------------------------------------------------------------------
(* Commands *)

\* lines 75-95
start(user_id) ==
    /\ user_id \in Users
    /\ UNCHANGED vars

\* lines 365-391
help_command(user_id) ==
    /\ user_id \in Users
    /\ UNCHANGED vars

\* lines 350-363: what /status answers in the current state
StatusReport(user_id) ==
    IF user_id \in DOMAIN active_reminders THEN
        LET job == active_reminders[user_id]
            reminder_type == IF "type" \in DOMAIN job.data THEN job.data.type ELSE "custom"
        IN  IF reminder_type = "custom"
            THEN [active |-> TRUE, kind |-> "custom", time_frame |-> job.data.time_frame,
                  message |-> job.data.message]
            ELSE [active |-> TRUE, kind |-> "random", time_frame |-> job.data.time_frame]
    ELSE [active |-> FALSE]

\* lines 346-363: the reply is StatusReport(user_id)
status(user_id) ==
    /\ StatusReport(user_id).active \in BOOLEAN
    /\ UNCHANGED vars

\* cancel without the membership test of line 339: `del` raises KeyError
cancel_unchecked(user_id) ==
    /\ user_states' = IF user_id \in DOMAIN user_states
                      THEN DictDel(user_states, user_id) ELSE user_states
    /\ IF user_id \in DOMAIN active_reminders
       THEN /\ job_queue' = schedule_removal(job_queue, active_reminders[user_id])
            /\ active_reminders' = DictDel(active_reminders, user_id)
            /\ Said(user_id, "cancel", "Reminder cancelled!")
       ELSE /\ Said(user_id, "cancel", "KeyError")
            /\ UNCHANGED <<job_queue, active_reminders>>
    /\ UNCHANGED <<in_flight, fired, now, last_run>>

\* lines 331-344
cancel(user_id) ==
    /\ Said(user_id, "cancel", IF user_id \in DOMAIN active_reminders
                               THEN "Reminder cancelled!"
                               ELSE "No active reminder found!")
    /\ user_states' = IF user_id \in DOMAIN user_states
                      THEN DictDel(user_states, user_id) ELSE user_states
    /\ IF user_id \in DOMAIN active_reminders
       THEN /\ job_queue' = schedule_removal(job_queue, active_reminders[user_id])
            /\ active_reminders' = DictDel(active_reminders, user_id)
       ELSE UNCHANGED <<job_queue, active_reminders>>
    /\ UNCHANGED <<in_flight, fired, now, last_run>>

----------------------------------------------------------------------------
(* Button callbacks *)

\* lines 176-213; time_frame is what line 150 left of the callback data
setup_random_reminder(user_id, chat_id, time_frame) ==
    LET removed == IF user_id \in DOMAIN active_reminders
                   THEN schedule_removal(job_queue, active_reminders[user_id])
                   ELSE job_queue
    IN  IF InTimeFrames(time_frame)
        THEN LET job == NewJob("send_random_reminder", TIME_FRAMES[time_frame[1]],
                               chat_id, user_id, RandomData(time_frame[1]))
             IN  /\ Said(user_id, "random_time", "Random Reminder Set!")
                 /\ job_queue' = removed \cup {job}
                 /\ active_reminders' = DictSet(active_reminders, user_id, job)
                 /\ user_states' = IF user_id \in DOMAIN user_states
                                   THEN DictDel(user_states, user_id) ELSE user_states
        ELSE \* line 183 raises KeyError, after line 180 has run
             /\ Said(user_id, "random_time", "KeyError")
             /\ job_queue' = removed
             /\ UNCHANGED <<active_reminders, user_states>>

\* lines 97-174
handle_reminder_selection(user_id, chat_id, data) ==
    /\ MatchesPattern(data)
    /\ IF data = <<"cancel", "reminder">> THEN
            IF user_id \in DOMAIN active_reminders
            THEN /\ Said(user_id, "cancel_reminder", "Reminder cancelled!")
                 /\ job_queue' = schedule_removal(job_queue, active_reminders[user_id])
                 /\ active_reminders' = DictDel(active_reminders, user_id)
                 /\ UNCHANGED user_states
            ELSE /\ Said(user_id, "cancel_reminder", "No active reminder found!")
                 /\ UNCHANGED <<active_reminders, user_states, job_queue>>
       ELSE IF data = <<"cancel", "setup">> THEN
            /\ Said(user_id, "cancel_setup", "Reminder setup cancelled!")
            /\ user_states' = IF user_id \in DOMAIN user_states
                              THEN DictDel(user_states, user_id) ELSE user_states
            /\ UNCHANGED <<active_reminders, job_queue>>
       ELSE IF data = <<"random", "reminders">> THEN
            /\ Said(user_id, "random_reminders", "Random Reminders Selected!")
            /\ user_states' = DictSet(user_states, user_id,
                                      [time_frame |-> "random", step |-> "time_selected"])
            /\ UNCHANGED <<active_reminders, job_queue>>
       ELSE IF StartsWith(data, "random") THEN
            setup_random_reminder(user_id, chat_id, Replace(data, "random"))
       ELSE LET time_frame == Replace(data, "reminder")
            IN  IF InTimeFrames(time_frame)
                THEN /\ Said(user_id, "custom_time", "Reminder Selected!")
                     /\ user_states' = DictSet(user_states, user_id,
                                          [time_frame |-> time_frame[1],
                                           step |-> "awaiting_message"])
                     /\ UNCHANGED <<active_reminders, job_queue>>
                ELSE /\ Said(user_id, "custom_time", "none")
                     /\ UNCHANGED <<active_reminders, user_states, job_queue>>
    /\ UNCHANGED <<in_flight, fired, now, last_run>>

----------------------------------------------------------------------------
(* Text messages *)

\* the check of the step left out
AwaitingMessage_any_state(user_id) == user_id \in DOMAIN user_states

\* line 221
AwaitingMessage(user_id) ==
    user_id \in DOMAIN user_states /\ user_states[user_id].step = "awaiting_message"

\* lines 215-274
handle_message_input(user_id, chat_id, text) ==
    /\ IF ~AwaitingMessage(user_id)
       THEN /\ Said(user_id, "text", "none")
            /\ UNCHANGED <<active_reminders, user_states, job_queue>>
       ELSE LET user_message == Strip(text)
                time_frame == user_states[user_id].time_frame
            IN  IF TooLong(user_message)
                THEN /\ Said(user_id, "text", "Message is too long!")
                     /\ UNCHANGED <<active_reminders, user_states, job_queue>>
                ELSE LET removed == IF user_id \in DOMAIN active_reminders
                                    THEN schedule_removal(job_queue, active_reminders[user_id])
                                    ELSE job_queue
                     IN  IF time_frame \in DOMAIN TIME_FRAMES
                         THEN LET job == NewJob("send_custom_reminder",
                                                TIME_FRAMES[time_frame], chat_id, user_id,
                                                CustomData(time_frame, user_message))
                              IN  /\ Said(user_id, "text", "Custom Reminder Set!")
                                  /\ job_queue' = removed \cup {job}
                                  /\ active_reminders' = DictSet(active_reminders, user_id, job)
                                  /\ user_states' = DictDel(user_states, user_id)
                         ELSE \* line 240 raises KeyError, after line 237 has run
                              /\ Said(user_id, "text", "KeyError")
                              /\ job_queue' = removed
                              /\ UNCHANGED <<active_reminders, user_states>>
    /\ UNCHANGED <<in_flight, fired, now, last_run>>

----------------------------------------------------------------------------
(* Job callbacks.  The job queue runs the callback of a job that is still  *)
(* scheduled; the callback suspends in `await send_message` and is resumed *)
(* when the send returns or raises.  An exception leaving the callback is  *)
(* handed to error_handler and the job stays scheduled.                    *)

HasKey(d, k) == k \in DOMAIN d

\* lines 284-290: the stored text in the notification template
CustomBody(job) == [template |-> "Reminder!", text |-> job.data.message,
                    frequency |-> job.data.time_frame]

\* lines 313-316: one message of the pool, with the interval
RandomBody(job, pick) == [template |-> "default", text |-> pick,
                          frequency |-> job.data.time_frame]

\* lines 298-303 and 324-329
FailureCleanup(user_id) ==
    IF user_id \in DOMAIN active_reminders
    THEN /\ job_queue' = schedule_removal(job_queue, active_reminders[user_id])
         /\ active_reminders' = DictDel(active_reminders, user_id)
    ELSE UNCHANGED <<job_queue, active_reminders>>

\* the common shape of lines 276-303 and 305-329; `delivered` is whether
\* send_message returns (TRUE) or raises (FALSE)
RunCallback(job, body, delivered) ==
    /\ IF job \in in_flight
       THEN \* resumed from the await of line 293 / 319
            /\ in_flight' = in_flight \ {job}
            /\ IF delivered
               THEN /\ Ran(job.user_id, "sent", job.chat_id, body)
                    /\ UNCHANGED <<job_queue, active_reminders>>
               ELSE /\ Ran(job.user_id, "failed", job.chat_id, body)
                    /\ FailureCleanup(job.data.user_id)
       ELSE /\ job \in job_queue
            /\ IF HasKey(job.data, "user_id")   \* line 280 / 309
               THEN /\ in_flight' = in_flight \cup {job}
                    /\ Ran(job.user_id, "sending", job.chat_id, body)
               ELSE \* KeyError: 'user_id'
                    /\ Ran(job.user_id, "KeyError", "none", "none")
                    /\ UNCHANGED in_flight
            /\ UNCHANGED <<job_queue, active_reminders>>
    /\ UNCHANGED <<user_states, last>>

\* lines 276-303
send_custom_reminder(job, delivered) ==
    /\ job.callback = "send_custom_reminder"
    /\ RunCallback(job, IF HasKey(job.data, "user_id") THEN CustomBody(job) ELSE "none",
                   delivered)

\* lines 305-329
send_random_reminder(job, pick, delivered) ==
    /\ job.callback = "send_random_reminder"
    /\ RunCallback(job, IF HasKey(job.data, "user_id") THEN RandomBody(job, pick) ELSE "none",
                   delivered)

----------------------------------------------------------------------------
\* lines 403-408: the handlers of the application, and the job queue running
\* the callbacks of the scheduled jobs, at any time (the clock stands)
Next ==
    \/ \E u \in Users : start(u)
    \/ \E u \in Users : cancel(u)
    \/ \E u \in Users : status(u)
    \/ \E u \in Users : help_command(u)
    \/ \E u \in Users, d \in CallbackData : handle_reminder_selection(u, ChatOf[u], d)
    \/ \E u \in Users, t \in Texts : handle_message_input(u, ChatOf[u], t)
    \/ \E j \in job_queue \cup in_flight, ok \in BOOLEAN :
            send_custom_reminder(j, ok) /\ UNCHANGED <<now, last_run>>
    \/ \E j \in job_queue \cup in_flight, ok \in BOOLEAN, m \in DEFAULT_REMINDER_MESSAGES :
            send_random_reminder(j, m, ok) /\ UNCHANGED <<now, last_run>>

Spec == Init /\ [][Next]_vars

----------------------------------------------------------------------------
(* The job queue with its clock.  run_repeating(callback, interval, first) *)
(* of python-telegram-bot's JobQueue schedules the first run of the job    *)
(* `first` seconds after the call and every later run `interval` seconds   *)
(* after the run before it (lines 184-191, 241-252 pass both).             *)

\* the entries of last_run of the jobs still scheduled
Scheduled == [j \in (DOMAIN last_run) \cap job_queue |-> last_run[j]]

\* when the job queue runs the job next
NextRunTime(job) ==
    IF job \in DOMAIN last_run THEN last_run[job] + job.interval
    ELSE job.created + job.first

Due(job) == job \in job_queue /\ now >= NextRunTime(job)

\* a minute passes; the job queue does not let the time of a run pass
Tick ==
    /\ now < MaxMinutes * 60
    /\ \A j \in job_queue : ~Due(j)
    /\ now' = now + 60
    /\ last_run' = Scheduled
    /\ UNCHANGED <<active_reminders, user_states, job_queue, in_flight, last, fired>>

\* the job queue runs the callback of a job that is due (or resumes one that
\* awaits send_message)
run_job(job, pick, delivered) ==
    /\ \/ send_custom_reminder(job, delivered)
       \/ send_random_reminder(job, pick, delivered)
    /\ IF job \in in_flight
       THEN last_run' = last_run
       ELSE Due(job) /\ last_run' = DictSet(Scheduled, job, now)
    /\ UNCHANGED now

NextTimed ==
    \/ Tick
    \/ \E u \in TimedUsers : cancel(u)
    \/ \E u \in TimedUsers, d \in TimedData : handle_reminder_selection(u, ChatOf[u], d)
    \/ \E u \in TimedUsers, t \in TimedTexts : handle_message_input(u, ChatOf[u], t)
    \/ \E j \in job_queue \cup in_flight, ok \in BOOLEAN, m \in DEFAULT_REMINDER_MESSAGES :
            run_job(j, m, ok)

SpecTimed == Init /\ [][NextTimed]_vars

----------------------------------------------------------------------------
(* Properties *)

\* the timers of a user that are scheduled
TimersOf(user_id) == {j \in job_queue : j.user_id = user_id}

Activated == {"Custom Reminder Set!", "Random Reminder Set!"}

\* C1: every scheduled timer of a user is the job active_reminders records
\* for that user, so a user never has two; and a step that puts a new job
\* in place of a recorded one takes the old job out of the queue and leaves
\* the new job as the user's only scheduled timer.
C1_OneTimerPerUser ==
    /\ [](\A u \in Users :
            /\ Cardinality(TimersOf(u)) <= 1
            /\ \A j \in TimersOf(u) :
                  u \in DOMAIN active_reminders /\ active_reminders[u] = j)
    /\ [][\A u \in Users :
            (/\ u \in DOMAIN active_reminders
             /\ u \in DOMAIN active_reminders'
             /\ active_reminders'[u] # active_reminders[u])
            => /\ active_reminders[u] \notin job_queue'
               /\ {j \in job_queue' : j.user_id = u} = {active_reminders'[u]}]_vars

\* C1, reached: an observed user has activated a reminder while a scheduled
\* one was recorded for them (the new job has the second identity), and it
\* is their only timer.
C1_Witness ==
    \E u \in Observed :
        /\ last[u].reply \in Activated
        /\ u \in DOMAIN active_reminders
        /\ active_reminders[u].id = 2
        /\ TimersOf(u) = {active_reminders[u]}

\* C2: every run of a callback of a user's job resolves a body and attempts
\* to deliver it to the chat the reminder was created in.
C2_EveryFiringAttemptsDelivery ==
    \A u \in Observed :
        fired[u].outcome # "none"
        => /\ fired[u].outcome \in {"sending", "sent", "failed"}
           /\ fired[u].chat_id = ChatOf[u]
           /\ fired[u].body # "none"

\* C3: a callback run that ends while the chat cannot be reached (send_message
\* would raise) leaves the job out of the queue and the user out of
\* active_reminders, so that /status reports no active reminder.
C3_FailedDeliveryStopsReminder ==
    [][\A j \in job_queue \cup in_flight :
          (/\ \/ send_custom_reminder(j, FALSE)
              \/ \E m \in DEFAULT_REMINDER_MESSAGES : send_random_reminder(j, m, FALSE)
           /\ j \notin in_flight')
          => /\ j \notin job_queue'
             /\ j.user_id \notin DOMAIN active_reminders'
             /\ ~StatusReport(j.user_id)'.active]_vars

\* a step of /cancel or of the cancel_reminder button of the user
CancelStep(u) ==
    \/ cancel(u)
    \/ handle_reminder_selection(u, ChatOf[u], <<"cancel", "reminder">>)

CancelOps == {"cancel", "cancel_reminder"}

\* every entry of user_states but the user's own is as it was
OthersStatesKept(u) ==
    /\ (DOMAIN user_states') \ {u} = (DOMAIN user_states) \ {u}
    /\ \A v \in (DOMAIN user_states) \ {u} : user_states'[v] = user_states[v]

\* C4 as claimed: a cancel of a user with no active reminder answers "No
\* active reminder found!" and changes neither active_reminders nor
\* user_states.
C4_CancelNothingChangesNothing ==
    [][\A u \in Observed :
          (last'[u].op \in CancelOps /\ CancelStep(u) /\ u \notin DOMAIN active_reminders)
          => /\ last'[u].reply = "No active reminder found!"
             /\ active_reminders' = active_reminders
             /\ user_states' = user_states]_vars

\* C4 as amended: such a cancel answers "No active reminder found!", changes
\* neither active_reminders nor the job queue nor any other user's entry of
\* user_states; the button leaves user_states as it is, the /cancel command
\* removes the user's own entry of user_states.
C4_CancelNothingKeepsReminders ==
    [][\A u \in Observed :
          (last'[u].op \in CancelOps /\ CancelStep(u) /\ u \notin DOMAIN active_reminders)
          => /\ last'[u].reply = "No active reminder found!"
             /\ active_reminders' = active_reminders
             /\ job_queue' = job_queue
             /\ OthersStatesKept(u)
             /\ last'[u].op = "cancel_reminder" => user_states' = user_states
             /\ last'[u].op = "cancel" => u \notin DOMAIN user_states']_vars

\* C4, reached: /cancel of a user with no reminder has removed their pending
\* SetupState while the other user's SetupState and reminder are in place.
C4_Witness ==
    \E u \in Observed :
        /\ last[u] = [op |-> "cancel", reply |-> "No active reminder found!"]
        /\ u \notin DOMAIN user_states
        /\ \E v \in Users \ {u} : v \in DOMAIN user_states /\ v \in DOMAIN active_reminders

\* C5: a text of a user who is not at the step awaiting_message changes
\* neither active_reminders nor the job queue nor user_states.
C5_TextOutsideSetupIgnored ==
    [][\A u \in Observed, t \in Texts :
          (/\ last'[u].op = "text"
           /\ ~(u \in DOMAIN user_states /\ user_states[u].step = "awaiting_message")
           /\ handle_message_input(u, ChatOf[u], t))
          => /\ UNCHANGED <<active_reminders, job_queue, user_states>>
             /\ last'[u].reply = "none"]_vars

\* C5, reached: a text of a user at the step time_selected (after the
\* random_reminders button) who has a scheduled reminder was ignored.
C5_Witness ==
    \E u \in Observed :
        /\ last[u] = [op |-> "text", reply |-> "none"]
        /\ u \in DOMAIN user_states /\ user_states[u].step = "time_selected"
        /\ u \in DOMAIN active_reminders /\ active_reminders[u] \in job_queue

\* the user is at the step awaiting_message
Awaiting(u) == u \in DOMAIN user_states /\ user_states[u].step = "awaiting_message"

\* a step of handle_message_input for a text of the user
TextStep(u, t) == last'[u].op = "text" /\ handle_message_input(u, ChatOf[u], t)

\* the text as stored: without the whitespace around it
Stored(t) == [id |-> t.id, core |-> t.core, pad |-> 0]

\* C6 as claimed: a text of more than 200 characters of a user awaiting a
\* message is answered by the re-prompt and changes nothing.
C6_LongTextRejected ==
    [][\A u \in Observed, t \in Texts :
          (Awaiting(u) /\ t.core + t.pad > MaxMessageLen /\ TextStep(u, t))
          => /\ last'[u].reply = "Message is too long!"
             /\ UNCHANGED <<active_reminders, job_queue, user_states>>]_vars

\* C6 as amended: a text that has more than 200 characters once the
\* whitespace around it is stripped is answered by the re-prompt and changes
\* nothing; and a text of at most 200 characters (stripped) that follows the
\* re-prompt activates a reminder with the interval the SetupState holds.
C6_LongStrippedTextRejected ==
    [][\A u \in Observed, t \in Texts :
          /\ (Awaiting(u) /\ t.core > MaxMessageLen /\ TextStep(u, t))
             => /\ last'[u].reply = "Message is too long!"
                /\ UNCHANGED <<active_reminders, job_queue, user_states>>
          /\ (/\ last[u].reply = "Message is too long!"
              /\ t.core <= MaxMessageLen
              /\ TextStep(u, t))
             => /\ last'[u].reply = "Custom Reminder Set!"
                /\ StatusReport(u)'.active
                /\ StatusReport(u)'.time_frame = user_states[u].time_frame]_vars

\* C6, reached: an over-long text of a user with a scheduled reminder was
\* rejected, their SetupState and reminder being in place.
C6_Witness ==
    \E u \in Observed :
        /\ last[u] = [op |-> "text", reply |-> "Message is too long!"]
        /\ Awaiting(u)
        /\ u \in DOMAIN active_reminders /\ active_reminders[u] \in job_queue

\* C7 as claimed: a text of a user awaiting a message is accepted exactly
\* when its length is at most 200.
C7_AcceptedIffAtMost200 ==
    [][\A u \in Observed, t \in Texts :
          (Awaiting(u) /\ TextStep(u, t))
          => (last'[u].reply = "Custom Reminder Set!"
                <=> t.core + t.pad <= MaxMessageLen)]_vars

\* C7 as amended: a text of a user awaiting a message is accepted exactly
\* when its length without the whitespace around it is at most 200, and
\* rejected with the re-prompt otherwise; 200 is accepted, 201 is rejected.
C7_AcceptedIffStrippedAtMost200 ==
    [][\A u \in Observed, t \in Texts :
          (Awaiting(u) /\ TextStep(u, t))
          => /\ last'[u].reply = "Custom Reminder Set!" <=> t.core <= MaxMessageLen
             /\ last'[u].reply = "Message is too long!" <=> t.core > MaxMessageLen
             /\ last'[u].reply = "Custom Reminder Set!"
                   => /\ u \in DOMAIN active_reminders'
                      /\ active_reminders'[u] \in job_queue'
                      /\ active_reminders'[u].data.message.core = t.core]_vars

\* C7, reached: a text of exactly 200 characters was accepted.
C7_Witness ==
    \E u \in Observed :
        /\ last[u] = [op |-> "text", reply |-> "Custom Reminder Set!"]
        /\ u \in DOMAIN active_reminders
        /\ active_reminders[u].data.type = "custom"
        /\ active_reminders[u].data.message.core = MaxMessageLen

\* C8: a cancel of a user with an active reminder answers "Reminder
\* cancelled!", takes the recorded job out of the queue and the user out of
\* active_reminders; while the cancel is the user's last operation no timer
\* of theirs is scheduled and /status reports no active reminder; a callback
\* of a job of the user runs only while a job of theirs is scheduled; and
\* the user gets a scheduled timer or an entry of active_reminders again
\* only by an activation.
C8_CancelStopsTimer ==
    /\ [][\A u \in Observed :
            /\ (last'[u].op \in CancelOps /\ u \in DOMAIN active_reminders /\ CancelStep(u))
               => /\ last'[u].reply = "Reminder cancelled!"
                  /\ active_reminders[u] \notin job_queue'
                  /\ u \notin DOMAIN active_reminders'
                  /\ {j \in job_queue' : j.user_id = u} = {}
            /\ fired'[u] # fired[u] => TimersOf(u) # {}
            /\ ((u \notin DOMAIN active_reminders /\ u \in DOMAIN active_reminders')
                  \/ (TimersOf(u) = {} /\ {j \in job_queue' : j.user_id = u} # {}))
               => last'[u].reply \in Activated]_vars
    /\ [](\A u \in Observed :
            last[u].op \in CancelOps
            => /\ TimersOf(u) = {}
               /\ ~StatusReport(u).active)

\* C8, reached: a user whose reminder had fired has cancelled it.
C8_Witness ==
    \E u \in Observed :
        /\ last[u].op \in CancelOps /\ last[u].reply = "Reminder cancelled!"
        /\ fired[u].outcome # "none"
        /\ TimersOf(u) = {}

\* C9 as claimed: a cancel that follows a cancel of the same user, with no
\* other operation of that user in between, answers "No active reminder
\* found!" and changes neither active_reminders nor user_states.
C9_SecondCancelChangesNothing ==
    [][\A u \in Observed :
          (last[u].op \in CancelOps /\ last'[u].op \in CancelOps /\ CancelStep(u))
          => /\ last'[u].reply = "No active reminder found!"
             /\ active_reminders' = active_reminders
             /\ user_states' = user_states]_vars

\* C9 as amended: such a second cancel answers "No active reminder found!"
\* and changes neither active_reminders nor the job queue nor any other
\* user's entry of user_states; it leaves user_states as it is unless it is
\* the /cancel command after a cancel by the button, which removes the
\* user's own entry of user_states.
C9_SecondCancelKeepsReminders ==
    [][\A u \in Observed :
          (last[u].op \in CancelOps /\ last'[u].op \in CancelOps /\ CancelStep(u))
          => /\ last'[u].reply = "No active reminder found!"
             /\ active_reminders' = active_reminders
             /\ job_queue' = job_queue
             /\ OthersStatesKept(u)
             /\ (last[u].op = "cancel" \/ last'[u].op = "cancel_reminder")
                   => user_states' = user_states
             /\ last'[u].op = "cancel" => u \notin DOMAIN user_states']_vars

\* C9, reached: the button and then /cancel, the first of which cancelled a
\* reminder, while the other user has a SetupState and a reminder.
C9_Witness ==
    \E u \in Observed :
        /\ last[u] = [op |-> "cancel", reply |-> "No active reminder found!"]
        /\ fired[u].outcome # "none"
        /\ \E v \in Users \ {u} : v \in DOMAIN user_states /\ v \in DOMAIN active_reminders

\* a press of the button reminder_<code> by the user
SelectStep(u, code) ==
    last'[u].op = "custom_time"
        /\ handle_reminder_selection(u, ChatOf[u], <<"reminder", code>>)

Selected == [op |-> "custom_time", reply |-> "Reminder Selected!"]

\* C10 as claimed: after reminder_<t> and then a text m of at most 200
\* characters, /status reports a custom reminder of interval t and text m,
\* and the user has no SetupState.
C10_SelectThenTextStoresText ==
    [][\A u \in Observed, t \in Texts :
          (/\ last[u] = Selected
           /\ t.core + t.pad <= MaxMessageLen
           /\ TextStep(u, t))
          => /\ StatusReport(u)' = [active |-> TRUE, kind |-> "custom",
                                    time_frame |-> user_states[u].time_frame,
                                    message |-> t]
             /\ u \notin DOMAIN user_states']_vars

\* C10 as amended: a press of reminder_<t>, t one of the codes of TIME_FRAMES,
\* stores a SetupState of interval t; and a text m that has at most 200
\* characters without the whitespace around it, sent next, makes /status
\* report a custom reminder of interval t whose text is m without the
\* whitespace around it, and clears the SetupState.
C10_SelectThenTextStoresStrippedText ==
    [][\A u \in Observed :
          /\ \A code \in TimeCodes :
                SelectStep(u, code)
                => /\ last'[u] = Selected
                   /\ user_states'[u] = [time_frame |-> code, step |-> "awaiting_message"]
          /\ \A t \in Texts :
                (last[u] = Selected /\ t.core <= MaxMessageLen /\ TextStep(u, t))
                => /\ StatusReport(u)' = [active |-> TRUE, kind |-> "custom",
                                          time_frame |-> user_states[u].time_frame,
                                          message |-> Stored(t)]
                   /\ active_reminders'[u] \in job_queue'
                   /\ u \notin DOMAIN user_states']_vars

\* C10, reached: /status would report a custom reminder of one hour set by
\* the user's last operation, while the other user's is of five minutes.
C10_Witness ==
    \E u \in Observed :
        /\ last[u] = [op |-> "text", reply |-> "Custom Reminder Set!"]
        /\ StatusReport(u).active /\ StatusReport(u).kind = "custom"
        /\ StatusReport(u).time_frame = "1h"
        /\ \E v \in Users \ {u} :
              StatusReport(v).active /\ StatusReport(v).time_frame = "5m"

\* a press of the button random_<code> by the user
RandomStep(u, code) ==
    last'[u].op = "random_time"
        /\ handle_reminder_selection(u, ChatOf[u], <<"random", code>>)

RandomSelected == [op |-> "random_reminders", reply |-> "Random Reminders Selected!"]

\* C11: a press of random_reminders stores a SetupState at which no text is
\* taken; a press of random_<t> that follows it, t one of the codes of
\* TIME_FRAMES, activates a reminder at once: /status reports an active
\* random reminder of interval t with no text, the recorded job is scheduled
\* with the interval of t and the callback of the random reminders, and the
\* SetupState is cleared.
C11_RandomSelectionActivates ==
    [][\A u \in Observed :
          /\ (last'[u].op = "random_reminders"
                 /\ handle_reminder_selection(u, ChatOf[u], <<"random", "reminders">>))
             => /\ last'[u] = RandomSelected
                /\ ~AwaitingMessage(u)'
                /\ UNCHANGED <<active_reminders, job_queue>>
          /\ \A code \in TimeCodes :
                (last[u] = RandomSelected /\ RandomStep(u, code))
                => /\ last'[u].reply = "Random Reminder Set!"
                   /\ StatusReport(u)' = [active |-> TRUE, kind |-> "random",
                                          time_frame |-> code]
                   /\ "message" \notin DOMAIN active_reminders'[u].data
                   /\ active_reminders'[u] \in job_queue'
                   /\ active_reminders'[u].callback = "send_random_reminder"
                   /\ active_reminders'[u].interval = TIME_FRAMES[code] * 60
                   /\ u \notin DOMAIN user_states']_vars

\* C11, reached: random_reminders and then random_1h of a user whose custom
\* reminder was running: /status reports the random reminder of one hour.
C11_Witness ==
    \E u \in Observed :
        /\ last[u] = [op |-> "random_time", reply |-> "Random Reminder Set!"]
        /\ StatusReport(u) = [active |-> TRUE, kind |-> "random", time_frame |-> "1h"]
        /\ active_reminders[u].id = 2
        /\ u \notin DOMAIN user_states

\* the callback data the pattern of line 407 lets in that is none of the
\* data of the bot's buttons
UnknownData ==
    {d \in CallbackData :
        /\ MatchesPattern(d)
        /\ d \notin {<<"reminder", t>> : t \in TimeCodes} \cup {<<"random", t>> : t \in TimeCodes}
        /\ d \notin {<<"random", "reminders">>, <<"cancel", "reminder">>, <<"cancel", "setup">>}}

\* C12: a button callback with unknown data changes neither active_reminders
\* nor user_states nor the job queue, and raises nothing (it answers nothing).
C12_UnknownCodeIsNoOp ==
    [][\A u \in Observed, d \in UnknownData :
          (last'[u].op \in {"custom_time", "random_time"}
             /\ handle_reminder_selection(u, ChatOf[u], d))
          => /\ UNCHANGED <<active_reminders, user_states, job_queue>>
             /\ last'[u].reply = "none"]_vars

\* the job queue starts a run of the callback of the job in this step
Fires(j) ==
    j \notin in_flight
        /\ \E m \in DEFAULT_REMINDER_MESSAGES, ok \in BOOLEAN : run_job(j, m, ok)

\* seconds of the interval the reminder of the job was activated with
IntervalOf(j) == TIME_FRAMES[j.data.time_frame] * 60

\* C13: a scheduled job is to run first one interval after its activation
\* and then every interval, the interval being that of the reminder's
\* time_frame; no run of a job is at the time of its activation, the first
\* run is exactly one interval after it and every later run exactly one
\* interval after the run before, for custom and random reminders.
C13_FirstFiringAfterOneInterval ==
    /\ [](\A j \in job_queue :
            /\ j.first = IntervalOf(j) /\ j.interval = IntervalOf(j)
            /\ j \in DOMAIN last_run => last_run[j] >= j.created + IntervalOf(j))
    /\ [][\A j \in job_queue :
            Fires(j)
            => /\ now > j.created
               /\ now - (IF j \in DOMAIN last_run THEN last_run[j] ELSE j.created)
                     = IntervalOf(j)]_vars

\* C13, reached: a random reminder of five minutes has just had its second
\* run, ten minutes after its activation, a custom reminder having run
\* before it.
C13_Witness ==
    \E j \in job_queue :
        /\ j.callback = "send_random_reminder"
        /\ j.created > 0
        /\ j \in DOMAIN last_run
        /\ last_run[j] = j.created + 2 * IntervalOf(j)
        /\ now = last_run[j]

\* a press of the button cancel_setup by the user
CancelSetupStep(u) ==
    last'[u].op = "cancel_setup"
        /\ handle_reminder_selection(u, ChatOf[u], <<"cancel", "setup">>)

\* C14: a press of cancel_setup leaves the user without an entry of
\* user_states, whether they had one or not, and leaves every other user's
\* entry, active_reminders and the job queue as they were; a text of the
\* user that follows it is ignored.
C14_CancelSetupDiscardsState ==
    [][\A u \in Observed :
          /\ CancelSetupStep(u)
             => /\ last'[u].reply = "Reminder setup cancelled!"
                /\ u \notin DOMAIN user_states'
                /\ OthersStatesKept(u)
                /\ UNCHANGED <<active_reminders, job_queue>>
          /\ \A t \in Texts :
                (last[u].op = "cancel_setup" /\ TextStep(u, t))
                => /\ last'[u].reply = "none"
                   /\ UNCHANGED <<active_reminders, job_queue, user_states>>]_vars

\* C14, reached: cancel_setup of a user whose reminder is scheduled and has
\* run, while the other user is in setup; the user has no SetupState.
C14_Witness ==
    \E u \in Observed :
        /\ last[u] = [op |-> "cancel_setup", reply |-> "Reminder setup cancelled!"]
        /\ u \notin DOMAIN user_states
        /\ u \in DOMAIN active_reminders /\ active_reminders[u] \in job_queue
        /\ fired[u].outcome # "none"
        /\ \E v \in Users \ {u} : v \in DOMAIN user_states

\* the job recorded for the user is a well-formed reminder of theirs
WellFormed(u, job) ==
    /\ job.user_id = u /\ job.chat_id = ChatOf[u]
    /\ job.data.time_frame \in TimeCodes
    /\ job.interval = TIME_FRAMES[job.data.time_frame] * 60
    /\ job.data.type \in {"custom", "random"}
    /\ job.data.type = "custom" <=> "message" \in DOMAIN job.data
    /\ job.data.type = "custom" <=> job.callback = "send_custom_reminder"
    /\ job.data.type = "random" <=> job.callback = "send_random_reminder"
    /\ job.data.type = "custom" => StrLen(job.data.message) <= MaxMessageLen

\* C15: every entry of active_reminders is a well-formed reminder: its
\* interval is one of the four of TIME_FRAMES, its kind is custom or random,
\* it has a text exactly when it is custom, and the text has at most 200
\* characters; /status reports that kind and interval.
C15_EntriesWellFormed ==
    \A u \in DOMAIN active_reminders :
        /\ WellFormed(u, active_reminders[u])
        /\ StatusReport(u).kind = active_reminders[u].data.type
        /\ StatusReport(u).time_frame \in TimeCodes

\* C15, reached: a custom reminder with a text of 200 characters and a
\* random reminder are recorded, for two users.
C15_Witness ==
    \E u \in Users, v \in Users :
        /\ u \in DOMAIN active_reminders /\ v \in DOMAIN active_reminders
        /\ active_reminders[u].data.type = "custom"
        /\ StrLen(active_reminders[u].data.message) = MaxMessageLen
        /\ active_reminders[v].data.type = "random"

\* No callback is ever suspended in `await send_message`: every run raises
\* KeyError at line 280 / 309 before it, so the `except` branches of lines
\* 298-303 and 324-329 never run.
NoDeliveryInFlight == in_flight = {}

\* C17: /status agrees with the job queue: a user has an entry of
\* active_reminders exactly when a job of theirs is scheduled, the recorded
\* job is scheduled, and it is the user's only scheduled job.
C17_StatusAgreesWithScheduler ==
    \A u \in Users :
        /\ StatusReport(u).active <=> TimersOf(u) # {}
        /\ u \in DOMAIN active_reminders
              => /\ active_reminders[u] \in job_queue
                 /\ TimersOf(u) = {active_reminders[u]}

SetupOps == {"custom_time", "random_reminders", "random_time", "cancel_setup", "text"}

\* a step of the setup of the user: a button other than cancel_reminder, or
\* a text
SetupStep(u) ==
    /\ last'[u].op \in SetupOps
    /\ \/ \E d \in CallbackData \ {<<"cancel", "reminder">>} :
              handle_reminder_selection(u, ChatOf[u], d)
       \/ \E t \in Texts : handle_message_input(u, ChatOf[u], t)

\* C18: /start, /status, /help, a press of reminder_<t> and a press of
\* random_reminders leave active_reminders and the job queue as they are;
\* and a step of the setup of a user takes their recorded job out of the
\* queue only when it activates a new reminder, whose job is then scheduled
\* and recorded in its place.
C18_SetupKeepsRunningReminder ==
    [][\A u \in Observed :
          /\ (start(u) \/ status(u) \/ help_command(u))
             => UNCHANGED <<active_reminders, job_queue>>
          /\ \A code \in TimeCodes \cup {"x"} :
                SelectStep(u, code) => UNCHANGED <<active_reminders, job_queue>>
          /\ (last'[u].op = "random_reminders"
                 /\ handle_reminder_selection(u, ChatOf[u], <<"random", "reminders">>))
             => UNCHANGED <<active_reminders, job_queue>>
          /\ (/\ u \in DOMAIN active_reminders
              /\ active_reminders[u] \in job_queue
              /\ active_reminders[u] \notin job_queue'
              /\ SetupStep(u))
             => /\ last'[u].reply \in Activated
                /\ active_reminders'[u] # active_reminders[u]
                /\ active_reminders'[u] \in job_queue']_vars

\* what the program holds of a user: their SetupState, their entry of
\* active_reminders and their scheduled timers
StateOf(b) ==
    [setup |-> IF b \in DOMAIN user_states THEN <<user_states[b]>> ELSE <<>>,
     reminder |-> IF b \in DOMAIN active_reminders THEN <<active_reminders[b]>> ELSE <<>>,
     timers |-> TimersOf(b)]

ButtonOps == {"cancel_reminder", "cancel_setup", "random_reminders", "random_time",
              "custom_time"}

\* what Said leaves in `last` when a handler has answered the user under one
\* of the ops: the op, for an observed user, and `last` as it was otherwise
Answered(a, ops) == IF a \in Observed THEN last'[a].op \in ops ELSE last' = last

\* a step of a handler run for the user, or of a callback of a job of theirs
StepOf(a) ==
    \/ start(a) \/ status(a) \/ help_command(a)
    \/ Answered(a, {"cancel"}) /\ cancel(a)
    \/ Answered(a, ButtonOps)
          /\ \E d \in CallbackData : handle_reminder_selection(a, ChatOf[a], d)
    \/ Answered(a, {"text"})
          /\ \E t \in Texts : handle_message_input(a, ChatOf[a], t)
    \/ \E j \in job_queue \cup in_flight :
          /\ j.user_id = a
          /\ \/ \E ok \in BOOLEAN : send_custom_reminder(j, ok)
             \/ \E ok \in BOOLEAN, m \in DEFAULT_REMINDER_MESSAGES :
                   send_random_reminder(j, m, ok)

\* C19: no step of a user A (a command, a button, a text, a run of a job of
\* theirs) changes what the program holds of another user B: no step in
\* which B's SetupState, entry of active_reminders or timers change is a
\* step of A.
C19_UsersIsolated ==
    [][\A b \in Users : \A a \in Users \ {b} :
          StateOf(b)' # StateOf(b) => ~StepOf(a)]_vars

\* C19, reached: both users have a SetupState and a scheduled reminder that
\* has replaced an earlier one of theirs, the observed user's having run.
C19_Witness ==
    \A u \in Users :
        /\ u \in DOMAIN user_states
        /\ u \in DOMAIN active_reminders
        /\ active_reminders[u] \in job_queue
        /\ active_reminders[u].id = 2
        /\ u \in Observed => fired[u].outcome # "none"

====
